---- MODULE Spec2Model ----
(***************************************************************************)
(* Model of cases-in-stdlib (src/main.py): the ordered catalog of naming   *)
(* styles CASES, the classifier real_case, the role resolver               *)
(* expected_case, the symbol generator objects_in_lib and the main scan    *)
(* loop that folds observations into the tables acc and counter.           *)
(*                                                                         *)
(* Identifiers are TLA+ strings; a character is a string of length one.    *)
(***************************************************************************)
EXTENDS Integers, Sequences, FiniteSets, TLC

VARIABLES
    name,        \* classifier run: the identifier handed to real_case
    nprefix,     \* classifier run: number of underscores prepended for the second call
    plain,       \* classifier run: outcome of real_case(name)
    prefixed,    \* classifier run: outcome of real_case('_' * nprefix + name)
    cpc,         \* classifier run: "idle", "start", "classified", "both"
    lines,       \* the lines of LIBS_FILE, in file order, each a sequence of code points
    sys_modules, \* imported modules: library name -> items of its __dict__, in order
    li,          \* number of lines of LIBS_FILE the outer loop has taken
    yielded,     \* the (object, name) pairs the generator of the current library has yielded
    cur,         \* the pair bound to obj, obj_name by line 97: <<>> or <<pair>>
    pending,     \* the items of lib.__dict__ the suspended generator has not visited yet
    acc,         \* {lib: {expected case: {real case: {(type, name)}}}}
    counter,     \* {lib: {expected case: {real case: count}}}
    stdout,      \* the calls of print and pprint so far, each with its arguments
    status,      \* "idle", "scanning", "simplified", "done", "crashed"
    exc,         \* the uncaught exception (its class, its str()) once status = "crashed"
    log          \* the observations (lib, object, name) recorded so far

cvars == <<name, nprefix, plain, prefixed, cpc>>
dvars == <<lines, sys_modules, li, yielded, cur, pending, acc, counter, stdout, status, exc, log>>
vars == <<cvars, dvars>>

(***************************************************************************)
(* Bounds of the model.                                                    *)
(***************************************************************************)
MaxLen == 4       \* longest identifier enumerated over Alphabet
MaxPrefix == 2    \* most underscores prepended to an identifier
MaxLibs == 2      \* most lines in LIBS_FILE
MaxSyms == 3      \* most items in the __dict__ of a module

(***************************************************************************)
(* Character classes used by the patterns of CASES.                        *)
(***************************************************************************)
Upper == {"A","B","C","D","E","F","G","H","I","J","K","L","M",
          "N","O","P","Q","R","S","T","U","V","W","X","Y","Z"}
Lower == {"a","b","c","d","e","f","g","h","i","j","k","l","m",
          "n","o","p","q","r","s","t","u","v","w","x","y","z"}
Digit == {"0","1","2","3","4","5","6","7","8","9"}

(***************************************************************************)
(* Regular expressions as syntax trees, and re.fullmatch.                  *)
(***************************************************************************)
Cls(S)  == [t |-> "cls", set |-> S]        \* [...] or a literal character
Cat(ps) == [t |-> "cat", parts |-> ps]     \* concatenation
Alt(ps) == [t |-> "alt", parts |-> ps]     \* a|b
Star(r) == [t |-> "star", arg |-> r]       \* r*
Plus(r) == [t |-> "plus", arg |-> r]       \* r+

CharAt(s, i) == SubSeq(s, i, i)

RECURSIVE Ends(_, _, _)
RECURSIVE EndsCat(_, _, _, _)
RECURSIVE EndsStar(_, _, _, _)

\* The positions (number of characters consumed) at which a match of re
\* can end when it starts at one of the positions of P.
Ends(re, s, P) ==
    CASE re.t = "cls"  -> {p + 1 : p \in {q \in P : q < Len(s) /\ CharAt(s, q + 1) \in re.set}}
      [] re.t = "cat"  -> EndsCat(re.parts, 1, s, P)
      [] re.t = "alt"  -> UNION {Ends(re.parts[k], s, P) : k \in DOMAIN re.parts}
      [] re.t = "star" -> EndsStar(re.arg, s, P, P)
      [] re.t = "plus" -> LET first == Ends(re.arg, s, P)
                          IN  EndsStar(re.arg, s, first, first)

EndsCat(parts, k, s, P) ==
    IF k > Len(parts) \/ P = {} THEN P
    ELSE EndsCat(parts, k + 1, s, Ends(parts[k], s, P))

\* Zero or more repetitions: seen holds every end position found so far,
\* frontier the ones not yet extended by one more repetition.
EndsStar(r, s, seen, frontier) ==
    LET more == Ends(r, s, frontier) \ seen
    IN  IF more = {} THEN seen ELSE EndsStar(r, s, seen \cup more, more)

\* Pattern.match: the pattern matches a prefix of s.
PrefixMatch(re, s) == Ends(re, s, {0}) # {}

\* Pattern.fullmatch: the pattern matches the whole of s.
FullMatch(re, s) == Len(s) \in Ends(re, s, {0})

(***************************************************************************)
(* CASES: the ordered catalog (pattern, label).                            *)
(***************************************************************************)
LowDig == Lower \cup Digit
UpDig == Upper \cup Digit
Us == Cls({"_"})

\* [A-Z][a-z0-9]*([A-Z][a-z0-9]*)*
ReMixedCase ==
    Cat(<<Cls(Upper), Star(Cls(LowDig)),
          Star(Cat(<<Cls(Upper), Star(Cls(LowDig))>>))>>)
\* [a-z_0-9]+
ReSnakeCase == Plus(Cls(LowDig \cup {"_"}))
\* [a-z0-9]+([A-Z][a-z0-9]*)*
ReCamelCase ==
    Cat(<<Plus(Cls(LowDig)), Star(Cat(<<Cls(Upper), Star(Cls(LowDig))>>))>>)
\* [A-Z][a-z0-9]*(_[a-z0-9]+)*
ReMixedSnakeCase ==
    Cat(<<Cls(Upper), Star(Cls(LowDig)), Star(Cat(<<Us, Plus(Cls(LowDig))>>))>>)
\* [A-Z0-9_]+
ReUpperCase == Plus(Cls(UpDig \cup {"_"}))
\* [A-Z][a-z0-9]*(_[A-Z][a-z0-9]*)*
ReMixedSnakeCaseCap ==
    Cat(<<Cls(Upper), Star(Cls(LowDig)),
          Star(Cat(<<Us, Cls(Upper), Star(Cls(LowDig))>>))>>)
\* ([a-z0-9]+[A-Z][a-z0-9]+|[a-z0-9]+)
ReCamelWord ==
    Alt(<<Cat(<<Plus(Cls(LowDig)), Cls(Upper), Plus(Cls(LowDig))>>),
          Plus(Cls(LowDig))>>)
\* ([a-z0-9]+[A-Z][a-z0-9]+|[a-z0-9]+)(_([a-z0-9]+[A-Z][a-z0-9]+|[a-z0-9]+))+
ReSnakeCamelCase == Cat(<<ReCamelWord, Plus(Cat(<<Us, ReCamelWord>>))>>)
\* ([a-z0-9]+|[A-Z0-9]+)
ReOneCaseWord == Alt(<<Plus(Cls(LowDig)), Plus(Cls(UpDig))>>)
\* ([a-z0-9]+|[A-Z0-9]+)(_([a-z0-9]+|[A-Z0-9]+))+
ReChangingCase == Cat(<<ReOneCaseWord, Plus(Cat(<<Us, ReOneCaseWord>>))>>)
\* ([A-Z0-9]+|[A-Z0-9]+)
ReUpperWord == Alt(<<Plus(Cls(UpDig)), Plus(Cls(UpDig))>>)
\* Py[A-Z0-9]*(_([A-Z0-9]+|[A-Z0-9]+))+
RePyCases ==
    Cat(<<Cls({"P"}), Cls({"y"}), Star(Cls(UpDig)), Plus(Cat(<<Us, ReUpperWord>>))>>)
\* [A-Z0-9]*(_([A-Z0-9]+|[A-Z0-9]+))*_[A-Z0-9]+[_a-z0-9]+
ReLowFinal ==
    Cat(<<Star(Cls(UpDig)), Star(Cat(<<Us, ReUpperWord>>)),
          Us, Plus(Cls(UpDig)), Plus(Cls(LowDig \cup {"_"}))>>)
\* [A-Z0-9_]+v[0-9\.]+[_A-Z0-9]+
ReVersion ==
    Cat(<<Plus(Cls(UpDig \cup {"_"})), Cls({"v"}), Plus(Cls(Digit \cup {"."})),
          Plus(Cls(UpDig \cup {"_"}))>>)
\* A catch-all last pattern: any string.
ReAnything == Star(Cls(Upper \cup Lower \cup Digit \cup {"_", "."}))
\* the empty pattern
ReEmpty == Cat(<<>>)

\* The catalog with the UPPER_CASE entry moved to the front.
CASESUpperFirst ==
    << <<ReUpperCase, "UPPER_CASE">>,
       <<ReMixedCase, "MixedCase">>,
       <<ReSnakeCase, "snake_case">>,
       <<ReCamelCase, "camelCase">>,
       <<ReMixedSnakeCase, "Mixed_snake_case">>,
       <<ReMixedSnakeCaseCap, "Mixed_Snake_Case">>,
       <<ReSnakeCamelCase, "snakeCamel_case">>,
       <<ReChangingCase, "changing_CASE">>,
       <<RePyCases, "Py_CASES">>,
       <<ReLowFinal, "LOWFINAL_CAse">>,
       <<ReVersion, "VERSIONv1.1_CASE">>,
       <<ReEmpty, "_">> >>

\* The catalog with the changing_CASE entry moved before Mixed_snake_case.
CASESChangingEarly ==
    << <<ReMixedCase, "MixedCase">>,
       <<ReSnakeCase, "snake_case">>,
       <<ReCamelCase, "camelCase">>,
       <<ReChangingCase, "changing_CASE">>,
       <<ReMixedSnakeCase, "Mixed_snake_case">>,
       <<ReUpperCase, "UPPER_CASE">>,
       <<ReMixedSnakeCaseCap, "Mixed_Snake_Case">>,
       <<ReSnakeCamelCase, "snakeCamel_case">>,
       <<RePyCases, "Py_CASES">>,
       <<ReLowFinal, "LOWFINAL_CAse">>,
       <<ReVersion, "VERSIONv1.1_CASE">>,
       <<ReEmpty, "_">> >>

CASES ==
    << <<ReMixedCase, "MixedCase">>,
       <<ReSnakeCase, "snake_case">>,
       <<ReCamelCase, "camelCase">>,
       <<ReMixedSnakeCase, "Mixed_snake_case">>,
       <<ReUpperCase, "UPPER_CASE">>,
       <<ReMixedSnakeCaseCap, "Mixed_Snake_Case">>,
       <<ReSnakeCamelCase, "snakeCamel_case">>,
       <<ReChangingCase, "changing_CASE">>,
       <<RePyCases, "Py_CASES">>,
       <<ReLowFinal, "LOWFINAL_CAse">>,
       <<ReVersion, "VERSIONv1.1_CASE">>,
       <<ReEmpty, "_">> >>

\* CASES.values()
Labels == {CASES[k][2] : k \in DOMAIN CASES}

(***************************************************************************)
(* real_case                                                               *)
(***************************************************************************)
RECURSIVE LStripOne(_)
RECURSIVE LStrip(_)

\* A broken lstrip that removes at most one leading underscore.
LStripOne(s) ==
    IF Len(s) > 0 /\ CharAt(s, 1) = "_" THEN SubSeq(s, 2, Len(s)) ELSE s

\* name.lstrip('_')
LStrip(s) ==
    IF Len(s) > 0 /\ CharAt(s, 1) = "_" THEN LStrip(SubSeq(s, 2, Len(s))) ELSE s

\* The outcome of a call: a returned value, or a raised exception of a kind
\* with its message.
Return(v) == [raised |-> FALSE, kind |-> "", value |-> v]
Raise(kind, msg) == [raised |-> TRUE, kind |-> kind, value |-> msg]

\* "Word {} have no case".format(name)
NoCaseMessage(n) == "Word " \o n \o " have no case"

RECURSIVE ScanCases(_, _)
\* The loop of real_case from catalog entry k on.
ScanCases(n, k) ==
    IF k > Len(CASES) THEN Raise("ValueError", NoCaseMessage(n))
    ELSE IF FullMatch(CASES[k][1], LStrip(n)) THEN Return(CASES[k][2])
    ELSE ScanCases(n, k + 1)

real_case(n) == ScanCases(n, 1)

(***************************************************************************)
(* Inputs of the classifier runs.                                          *)
(***************************************************************************)
Alphabet == {"P", "A", "y", "v", "1", "_", "."}

RECURSIVE Strings(_)
\* Every string over Alphabet of length at most n.
Strings(n) ==
    IF n = 0 THEN {""}
    ELSE LET shorter == Strings(n - 1)
         IN  shorter \cup {s \o c : s \in shorter, c \in Alphabet}

\* The identifiers test_real_case classifies besides the labels.
TestNames ==
    {"snake_case_two_more", "UPPER_CASE_TWO_MORE", "camelCaseTwoMore",
     "MixedCaseTwoMore", "snake_42case", "__hadoken", "barry_as_FLUFL",
     "this_isAtest", "this_isAnother_one"}

Names == Strings(MaxLen) \cup Labels \cup TestNames

RECURSIVE Underscores(_)
\* '_' * k
Underscores(k) == IF k = 0 THEN "" ELSE "_" \o Underscores(k - 1)

NoOutcome == Return("")


(***************************************************************************)
(* expected_case                                                           *)
(***************************************************************************)
\* An object as expected_case sees it:
\*   str    str(obj)
\*   mro    the names of the classes of type(obj).__mro__
\*   class  the names of the classes of obj.__class__.__mro__ (the same as
\*          mro unless the object overrides __class__)
\*   own    for a class, the names of the classes of its own __mro__
\*   type   <<type(obj)>>, or <<>> for the class type, which is its own type
TheType ==
    [str |-> "<class 'type'>", mro |-> {"type", "object"}, class |-> {"type", "object"},
     own |-> {"type", "object"}, type |-> <<>>]

\* A class printed as text, with the given __mro__ and metaclass.
Class(text, own, metaclass) ==
    [str |-> text, mro |-> metaclass.own, class |-> metaclass.own, own |-> own,
     type |-> IF metaclass = TheType THEN <<TheType>> ELSE <<metaclass>>]

\* A built-in or plain class named t, deriving from object.
Builtin(t) == Class("<class '" \o t \o "'>", {t, "object"}, TheType)

\* An instance of cls.
Instance(cls, text) ==
    [str |-> text, mro |-> cls.own, class |-> cls.own, own |-> {}, type |-> <<cls>>]

\* An instance of cls whose __class__ attribute answers as.
Posing(cls, as, text) ==
    [str |-> text, mro |-> cls.own, class |-> as.own, own |-> {}, type |-> <<cls>>]

\* type(obj)
TypeOf(obj) == IF obj.type = <<>> THEN obj ELSE obj.type[1]

\* The types of the tuple tested on line 65.
LiteralTypes == {"str", "bytes", "int", "float", "list", "tuple", "set", "frozenset", "dict"}

\* isinstance(obj, cls): cls is among the classes of type(obj).__mro__ or of
\* obj.__class__.__mro__.
IsInstance(obj, cls) == cls \in obj.mro \cup obj.class

isclass(obj) == IsInstance(obj, "type")           \* inspect.isclass
isfunction(obj) == IsInstance(obj, "function")    \* inspect.isfunction
ismodule(obj) == IsInstance(obj, "module")        \* inspect.ismodule
isliteral(obj) == \E cls \in LiteralTypes : IsInstance(obj, cls)

\* The predicates of type_to_case, in the order of the dict literal.
type_to_case ==
    << <<"isclass", "MixedCase">>,
       <<"isfunction", "snake_case">>,
       <<"ismodule", "snake_case">>,
       <<"isinstance", "UPPER_CASE">>,
       <<"isclass_of_type", "UPPER_CASE">> >>

Holds(pred, obj) ==
    CASE pred = "isclass" -> isclass(obj)
      [] pred = "isfunction" -> isfunction(obj)
      [] pred = "ismodule" -> ismodule(obj)
      [] pred = "isinstance" -> isliteral(obj)
      [] pred = "isclass_of_type" -> isclass(TypeOf(obj))

NotHandledMessage(obj, lib_name) ==
    "Object '" \o obj.str \o "' of type " \o TypeOf(obj).str \o " found in lib '"
    \o lib_name \o "' is not handled by expected_case function"

RECURSIVE ScanTypes(_, _, _)
\* The loop of expected_case from predicate k on.
ScanTypes(obj, lib_name, k) ==
    IF k > Len(type_to_case) THEN Raise("ValueError", NotHandledMessage(obj, lib_name))
    ELSE IF Holds(type_to_case[k][1], obj) THEN Return(type_to_case[k][2])
    ELSE ScanTypes(obj, lib_name, k + 1)

\* expected_case(obj): lib_name keeps its default ''.
expected_case(obj) == ScanTypes(obj, "", 1)

(***************************************************************************)
(* libs_names and objects_in_lib                                           *)
(***************************************************************************)
\* A line of LIBS_FILE is the sequence of the code points of its characters.
\* The code points c with chr(c).isspace(): the characters str.strip removes.
Whitespace ==
    {9, 10, 11, 12, 13, 28, 29, 30, 31, 32, 133, 160, 5760}
    \cup (8192..8202) \cup {8232, 8233, 8239, 8287, 12288}

RECURSIVE LStripWs(_)
RECURSIVE RStripWs(_)
LStripWs(s) ==
    IF Len(s) > 0 /\ s[1] \in Whitespace THEN LStripWs(SubSeq(s, 2, Len(s))) ELSE s
RStripWs(s) ==
    IF Len(s) > 0 /\ s[Len(s)] \in Whitespace
    THEN RStripWs(SubSeq(s, 1, Len(s) - 1)) ELSE s

\* str.strip
Strip(s) == RStripWs(LStripWs(s))

\* The characters of code points 32..95 and 97..126, in order.
PrintableLow ==
    " !\"#$%&'()*+,-./0123456789:;<=>?@ABCDEFGHIJKLMNOPQRSTUVWXYZ[\\]^_"
PrintableHigh ==
    "abcdefghijklmnopqrstuvwxyz{|}~"

\* chr, on the code points the names of the model are written with
Chr(c) ==
    IF c < 96 THEN SubSeq(PrintableLow, c - 31, c - 31)
    ELSE SubSeq(PrintableHigh, c - 96, c - 96)

\* ord
Ord(ch) ==
    CASE ch = "\t" -> 9
      [] ch = "\n" -> 10
      [] ch = "\f" -> 12
      [] ch = "\r" -> 13
      [] OTHER -> CHOOSE c \in (32..95) \cup (97..126) : Chr(c) = ch

\* A text as the sequence of its code points, and back.
Encode(s) == [i \in 1..Len(s) |-> Ord(CharAt(s, i))]

RECURSIVE Decode(_)
Decode(cs) == IF cs = <<>> THEN "" ELSE Chr(Head(cs)) \o Decode(Tail(cs))

\* libs_names(): the stripped lines of LIBS_FILE.
libs_names(file) == [i \in 1..Len(file) |-> Decode(Strip(file[i]))]

\* str.startswith
StartsWith(s, p) == Len(s) >= Len(p) /\ SubSeq(s, 1, Len(p)) = p

\* The modules installed in the interpreter of the model, and the packages
\* among them.
Installed == {"csv", "functools", "logging"}
Packages == {"logging"}

\* The names import_module imports in turn for a dotted name: the part
\* before each dot, then the whole name.
ImportChain(s) ==
    LET dots == {i \in 1..Len(s) : CharAt(s, i) = "."}
        nth(k) == CHOOSE i \in dots : Cardinality({j \in dots : j < i}) = k - 1
    IN  [k \in 1..(Cardinality(dots) + 1) |->
            IF k <= Cardinality(dots) THEN SubSeq(s, 1, nth(k) - 1) ELSE s]

RECURSIVE ImportFrom(_, _)
\* import_module on the chain from its k-th name on: each name is imported
\* in turn, the first one that is not installed raises.
ImportFrom(chain, k) ==
    IF k > Len(chain) THEN Return("module")
    ELSE IF chain[k] \in Installed THEN ImportFrom(chain, k + 1)
    ELSE IF k > 1 /\ chain[k - 1] \notin Packages
    THEN Raise("ModuleNotFoundError",
               "No module named '" \o chain[k] \o "'; '" \o chain[k - 1] \o "' is not a package")
    ELSE Raise("ModuleNotFoundError", "No module named '" \o chain[k] \o "'")

\* importlib.import_module(lib_name, package=None): "module", or the
\* exception it raises.
ImportOutcome(lib_name) ==
    IF lib_name = "" THEN Raise("ValueError", "Empty module name")
    ELSE IF StartsWith(lib_name, ".")
    THEN Raise("TypeError", "the 'package' argument is required to perform a relative import for '"
                            \o lib_name \o "'")
    ELSE ImportFrom(ImportChain(lib_name), 1)

\* The modules import_module(lib_name) has imported when it returns or
\* raises: the names of the chain up to the first that is not installed.
ImportedBy(lib_name) ==
    IF lib_name = "" \/ StartsWith(lib_name, ".") THEN {}
    ELSE LET chain == ImportChain(lib_name)
         IN  {chain[k] : k \in {j \in DOMAIN chain : \A i \in 1..j : chain[i] \in Installed}}

\* The except clause of objects_in_lib: ImportError and its subclasses only.
IsImportError(lib_name) ==
    ImportOutcome(lib_name).kind \in {"ImportError", "ModuleNotFoundError"}

Yield(item) == <<item[2], item[1]>>       \* item (obj_name, obj) -> obj, obj_name

KeptSingle(item) == ~StartsWith(item[1], "_")

\* if not obj_name.startswith('__')
Kept(item) == ~StartsWith(item[1], "__")

RECURSIVE SkipToKept(_)
\* The loop of line 52 runs on until an item passes line 53.
SkipToKept(items) ==
    IF items = <<>> THEN <<>>
    ELSE IF Kept(Head(items)) THEN items
    ELSE SkipToKept(Tail(items))

\* One next() of the generator over the items it has not visited: the pair
\* it yields (none when it is exhausted) and the items left after it.
NextYield(items) ==
    LET rest == SkipToKept(items)
    IN  IF rest = <<>> THEN [pair |-> <<>>, rest |-> <<>>]
        ELSE [pair |-> <<Yield(Head(rest))>>, rest |-> Tail(rest)]

(***************************************************************************)
(* The nested defaultdicts.                                                *)
(***************************************************************************)
EmptyDict == <<>>

Put(d, k, v) == [x \in (DOMAIN d) \cup {k} |-> IF x = k THEN v ELSE d[x]]

\* defaultdict.__getitem__: an absent key is inserted with the default.
Vivify(d, k, default) == IF k \in DOMAIN d THEN d ELSE Put(d, k, default)

\* The paths [lib][expected case][real case] present in a table.
KeyPaths(table) ==
    UNION {UNION {{<<l, e, r>> : r \in DOMAIN table[l][e]} : e \in DOMAIN table[l]}
           : l \in DOMAIN table}

At(table, path) == table[path[1]][path[2]][path[3]]

\* The outcome of a statement on a table: the table it leaves, and the
\* exception it raised if any.
Left(table, outcome) ==
    [table |-> table, raised |-> outcome.raised, kind |-> outcome.kind,
     value |-> IF outcome.raised THEN outcome.value ELSE ""]

\* Line 98 with the set replaced instead of extended.
Line98Overwrite(a, lib_name, obj, obj_name) ==
    LET e == expected_case(obj)
        r == real_case(obj_name)
        a1 == Vivify(a, lib_name, EmptyDict)
        a2 == Put(a1, lib_name, Vivify(a1[lib_name], e.value, EmptyDict))
    IN  IF e.raised THEN Left(a1, e)
        ELSE IF r.raised THEN Left(a2, r)
        ELSE Left(Put(a2, lib_name, Put(a2[lib_name], e.value,
                      Put(a2[lib_name][e.value], r.value, {<<TypeOf(obj), obj_name>>}))), r)

\* acc[lib_name][expected_case(obj)][real_case(obj_name)].add((type(obj), obj_name))
\* evaluated left to right: each subscript inserts its key before the next call.
Line98(a, lib_name, obj, obj_name) ==
    LET e == expected_case(obj)
        r == real_case(obj_name)
        a1 == Vivify(a, lib_name, EmptyDict)
        a2 == Put(a1, lib_name, Vivify(a1[lib_name], e.value, EmptyDict))
        a3 == Put(a2, lib_name, Put(a2[lib_name], e.value,
                  Vivify(a2[lib_name][e.value], r.value, {})))
    IN  IF e.raised THEN Left(a1, e)
        ELSE IF r.raised THEN Left(a2, r)
        ELSE Left(Put(a3, lib_name, Put(a3[lib_name], e.value,
                      Put(a3[lib_name][e.value], r.value,
                          a3[lib_name][e.value][r.value] \cup {<<TypeOf(obj), obj_name>>}))), r)

\* Line 99 with the two style keys in the other order.
Line99Swapped(c, lib_name, obj, obj_name) ==
    LET e == expected_case(obj)
        r == real_case(obj_name)
        c1 == Vivify(c, lib_name, EmptyDict)
        c2 == Put(c1, lib_name, Vivify(c1[lib_name], r.value, EmptyDict))
        c3 == Put(c2, lib_name, Put(c2[lib_name], r.value,
                  Vivify(c2[lib_name][r.value], e.value, 0)))
    IN  IF e.raised THEN Left(c1, e)
        ELSE IF r.raised THEN Left(c1, r)
        ELSE Left(Put(c3, lib_name, Put(c3[lib_name], r.value,
                      Put(c3[lib_name][r.value], e.value,
                          c3[lib_name][r.value][e.value] + 1))), r)

\* counter[lib_name][expected_case(obj)][real_case(obj_name)] += 1
Line99(c, lib_name, obj, obj_name) ==
    LET e == expected_case(obj)
        r == real_case(obj_name)
        c1 == Vivify(c, lib_name, EmptyDict)
        c2 == Put(c1, lib_name, Vivify(c1[lib_name], e.value, EmptyDict))
        c3 == Put(c2, lib_name, Put(c2[lib_name], e.value,
                  Vivify(c2[lib_name][e.value], r.value, 0)))
    IN  IF e.raised THEN Left(c1, e)
        ELSE IF r.raised THEN Left(c2, r)
        ELSE Left(Put(c3, lib_name, Put(c3[lib_name], e.value,
                      Put(c3[lib_name][e.value], r.value,
                          c3[lib_name][e.value][r.value] + 1))), r)

(***************************************************************************)
(* Inputs of the scan: the lines of LIBS_FILE and the modules behind them. *)
(***************************************************************************)
FileLines ==
    {Encode("csv\n"), Encode("logging\n"), Encode("nolib\n"), Encode("csv.nolib\n"),
     Encode(".csv\n"), Encode("\f\n"),
     <<8195>> \o Encode("functools") \o <<160, 10>>}

RECURSIVE SeqsUpTo(_, _)
\* Every sequence over S of length at most n.
SeqsUpTo(S, n) ==
    IF n = 0 THEN {<<>>}
    ELSE LET shorter == SeqsUpTo(S, n - 1)
         IN  shorter \cup {Append(q, x) : q \in shorter, x \in S}

ABCMeta == Class("<class 'abc.ABCMeta'>", {"ABCMeta", "type", "object"}, TheType)

\* The (obj_name, obj) items a module's __dict__ may hold.
ModuleItems(lib_name) ==
    CASE lib_name = "csv" ->
            {<<"reader", Instance(Builtin("builtin_function_or_method"),
                                  "<built-in function reader>")>>,
             <<"Sized", Class("<class 'collections.abc.Sized'>", {"Sized", "object"}, ABCMeta)>>,
             <<"Ab_cD", Instance(Builtin("int"), "1")>>}
      [] lib_name = "functools" ->
            {<<"partial", Builtin("functools.partial")>>,
             <<"mock_type", Posing(Builtin("FakeClass"), TheType, "<FakeClass object>")>>}
      [] OTHER ->
            {<<"__hadoken", Instance(Builtin("function"), "<function __hadoken>")>>,
             <<"__doc__", Instance(Builtin("str"), "Logging package for Python.")>>,
             <<"_checkLevel", Instance(Builtin("function"), "<function _checkLevel>")>>}

\* A __dict__: at most MaxSyms items in insertion order, no name twice.
ModuleDicts(lib_name) ==
    {d \in SeqsUpTo(ModuleItems(lib_name), MaxSyms) :
        \A i, j \in DOMAIN d : i # j => d[i][1] # d[j][1]}

\* sys.modules after the modules named are imported: one already there is
\* kept, a new one comes with its __dict__.
Loadings(mods, names) ==
    LET new == names \ DOMAIN mods
        fresh == {f \in [new -> UNION {ModuleDicts(n) : n \in new}] :
                     \A n \in new : f[n] \in ModuleDicts(n)}
    IN  {[n \in (DOMAIN mods) \cup new |-> IF n \in DOMAIN mods THEN mods[n] ELSE f[n]]
         : f \in fresh}

(***************************************************************************)
(* The main program (lines 94-111).                                        *)
(***************************************************************************)
\* sys.modules when line 94 is reached: line 10 (from functools import
\* partial) has imported functools, whose __dict__ holds partial.
StartModules ==
    {[n \in {"functools"} |-> d] :
        d \in {x \in ModuleDicts("functools") : \E i \in DOMAIN x : x[i][1] = "partial"}}

\* exc while no exception is in flight.
NoException == [kind |-> "", value |-> ""]

Init ==
    /\ lines \in SeqsUpTo(FileLines, MaxLibs)
    /\ sys_modules \in StartModules
    /\ li = 0
    /\ yielded = <<>>
    /\ cur = <<>>
    /\ pending = <<>>
    /\ acc = EmptyDict
    /\ counter = EmptyDict
    /\ stdout = <<>>
    /\ status = "scanning"
    /\ exc = NoException
    /\ log = <<>>
    /\ name = ""
    /\ nprefix = 0
    /\ plain = NoOutcome
    /\ prefixed = NoOutcome
    /\ cpc = "idle"

\* The generator of the current library is exhausted and a line is left.
AtNextLib == status = "scanning" /\ cur = <<>> /\ li < Len(lines)

NextLibName == libs_names(lines)[li + 1]

\* An uncaught exception: its class and its str().
Uncaught(outcome) == [kind |-> outcome.kind, value |-> outcome.value]

\* print(*args) and pprint(arg), as written to stdout.
PrintCall(args) == [call |-> "print", args |-> args]
PPrintCall(arg) == [call |-> "pprint", args |-> <<arg>>]

\* First next() of objects_in_lib: the import succeeds and the generator runs
\* to its first yield (or to its end).
ImportModule ==
    /\ AtNextLib
    /\ ~ImportOutcome(NextLibName).raised
    /\ \E mods \in Loadings(sys_modules, ImportedBy(NextLibName)) :
          /\ sys_modules' = mods
          /\ yielded' = NextYield(mods[NextLibName]).pair
          /\ cur' = NextYield(mods[NextLibName]).pair
          /\ pending' = NextYield(mods[NextLibName]).rest
    /\ li' = li + 1
    /\ UNCHANGED <<lines, acc, counter, stdout, status, exc, log, cvars>>

\* The import raises ImportError: reported, nothing yielded.  The parents
\* imported before the missing name stay in sys.modules.
ImportFails ==
    /\ AtNextLib
    /\ ImportOutcome(NextLibName).raised
    /\ IsImportError(NextLibName)
    /\ stdout' = Append(stdout, PrintCall(<<"LIB IMPORT ERROR:", ImportOutcome(NextLibName).value>>))
    /\ yielded' = <<>>
    /\ cur' = <<>>
    /\ pending' = <<>>
    /\ sys_modules' \in Loadings(sys_modules, ImportedBy(NextLibName))
    /\ li' = li + 1
    /\ UNCHANGED <<lines, acc, counter, status, exc, log, cvars>>

\* The import raises another exception: nothing catches it.
ImportRaises ==
    /\ AtNextLib
    /\ ImportOutcome(NextLibName).raised
    /\ ~IsImportError(NextLibName)
    /\ status' = "crashed"
    /\ exc' = Uncaught(ImportOutcome(NextLibName))
    /\ yielded' = <<>>
    /\ cur' = <<>>
    /\ pending' = <<>>
    /\ sys_modules' \in Loadings(sys_modules, ImportedBy(NextLibName))
    /\ li' = li + 1
    /\ UNCHANGED <<lines, acc, counter, stdout, log, cvars>>

CurLib == libs_names(lines)[li]

\* One iteration of the inner loop: lines 98 and 99 for the pair in hand,
\* then the next() of line 97 resumes the generator.
Record ==
    /\ status = "scanning"
    /\ cur # <<>>
    /\ LET obj == cur[1][1]
           obj_name == cur[1][2]
           r98 == Line98(acc, CurLib, obj, obj_name)
           r99 == Line99(counter, CurLib, obj, obj_name)
       IN  /\ ~r98.raised
           /\ ~r99.raised
           /\ acc' = r98.table
           /\ counter' = r99.table
           /\ log' = Append(log, <<CurLib, obj, obj_name>>)
    /\ cur' = NextYield(pending).pair
    /\ yielded' = yielded \o NextYield(pending).pair
    /\ pending' = NextYield(pending).rest
    /\ UNCHANGED <<lines, sys_modules, li, stdout, status, exc, cvars>>

\* The iteration raises (expected_case or real_case): the run ends there,
\* the generator is never resumed.
RecordRaises ==
    /\ status = "scanning"
    /\ cur # <<>>
    /\ LET obj == cur[1][1]
           obj_name == cur[1][2]
           r98 == Line98(acc, CurLib, obj, obj_name)
           r99 == Line99(counter, CurLib, obj, obj_name)
       IN  /\ ~(~r98.raised /\ ~r99.raised)
           /\ acc' = r98.table
           /\ counter' = IF r98.raised THEN counter ELSE r99.table
           /\ exc' = IF r98.raised THEN Uncaught(r98) ELSE Uncaught(r99)
    /\ status' = "crashed"
    /\ UNCHANGED <<lines, sys_modules, li, yielded, cur, pending, stdout, log, cvars>>

\* Lines 100-106: both tables rebuilt as plain dicts with the same content.
Simplify ==
    /\ status = "scanning"
    /\ cur = <<>>
    /\ li = Len(lines)
    /\ acc' = [l \in DOMAIN acc |-> [e \in DOMAIN acc[l] |->
                 [r \in DOMAIN acc[l][e] |-> acc[l][e][r]]]]
    /\ counter' = [l \in DOMAIN counter |-> [e \in DOMAIN counter[l] |->
                     [r \in DOMAIN counter[l][e] |-> counter[l][e][r]]]]
    /\ status' = "simplified"
    /\ UNCHANGED <<lines, sys_modules, li, yielded, cur, pending, stdout, exc, log, cvars>>

\* The libraries whose tables lines 109-111 show.
Shown == <<"csv", "functools", "logging">>

RECURSIVE ShowFrom(_, _)
\* Lines 109-111 from the k-th on: counter is a plain dict now, so an absent
\* library raises KeyError.
ShowFrom(out, k) ==
    IF k > Len(Shown) THEN Left(out, Return(""))
    ELSE IF Shown[k] \notin DOMAIN counter
    THEN Left(out, Raise("KeyError", "'" \o Shown[k] \o "'"))
    ELSE ShowFrom(Append(out, PPrintCall(counter[Shown[k]])), k + 1)

\* Lines 107-111.
Report ==
    /\ status = "simplified"
    /\ LET shown == ShowFrom(stdout \o <<PPrintCall(counter), PrintCall(<<>>)>>, 1)
       IN  /\ stdout' = shown.table
           /\ status' = IF shown.raised THEN "crashed" ELSE "done"
           /\ exc' = IF shown.raised THEN Uncaught(shown) ELSE exc
    /\ UNCHANGED <<lines, sys_modules, li, yielded, cur, pending, acc, counter, log, cvars>>

Next ==
    \/ ImportModule \/ ImportFails \/ ImportRaises
    \/ Record \/ RecordRaises \/ Simplify \/ Report

Spec == Init /\ [][Next]_vars

(***************************************************************************)
(* Classifier runs: one call of real_case on an identifier, then one call  *)
(* on the same identifier behind nprefix more underscores.                 *)
(***************************************************************************)
ClassifyInit ==
    /\ name \in Names
    /\ nprefix \in 0..MaxPrefix
    /\ plain = NoOutcome
    /\ prefixed = NoOutcome
    /\ cpc = "start"
    /\ lines = <<>>
    /\ sys_modules = [n \in {"functools"} |-> <<<<"partial", Builtin("functools.partial")>>>>]
    /\ li = 0
    /\ yielded = <<>>
    /\ cur = <<>>
    /\ pending = <<>>
    /\ acc = EmptyDict
    /\ counter = EmptyDict
    /\ stdout = <<>>
    /\ status = "idle"
    /\ exc = NoException
    /\ log = <<>>

Classify ==
    /\ cpc = "start"
    /\ plain' = real_case(name)
    /\ cpc' = "classified"
    /\ UNCHANGED <<name, nprefix, prefixed, dvars>>

ClassifyPrefixed ==
    /\ cpc = "classified"
    /\ prefixed' = real_case(Underscores(nprefix) \o name)
    /\ cpc' = "both"
    /\ UNCHANGED <<name, nprefix, plain, dvars>>

ClassifyNext == Classify \/ ClassifyPrefixed

ClassifySpec == ClassifyInit /\ [][ClassifyNext]_vars


(***************************************************************************)
(* Vocabulary of the properties.                                           *)
(***************************************************************************)
Chars(s) == {CharAt(s, i) : i \in 1..Len(s)}

\* sub occurs in s
Contains(s, sub) == \E i \in 1..(Len(s) - Len(sub) + 1) : SubSeq(s, i, i + Len(sub) - 1) = sub

EndsWith(s, p) == Len(s) >= Len(p) /\ SubSeq(s, Len(s) - Len(p) + 1, Len(s)) = p

\* __name__: wrapped in double leading and trailing underscores
IsDunder(s) == Len(s) > 4 /\ StartsWith(s, "__") /\ EndsWith(s, "__")

\* The catalog patterns that fully match the stripped identifier.
Matching(n) == {k \in DOMAIN CASES : FullMatch(CASES[k][1], LStrip(n))}

Classified == cpc \in {"classified", "both"}

\* Two or more non-empty words joined by single underscores, each word all
\* lowercase letters or all uppercase letters, at least one word of each kind.
IsChangingShape(s) ==
    /\ Len(s) > 0
    /\ Chars(s) \subseteq Upper \cup Lower \cup {"_"}
    /\ CharAt(s, 1) # "_" /\ CharAt(s, Len(s)) # "_"
    /\ \A i \in 1..(Len(s) - 1) :
          /\ ~(CharAt(s, i) = "_" /\ CharAt(s, i + 1) = "_")
          /\ ~(CharAt(s, i) \in Upper /\ CharAt(s, i + 1) \in Lower)
          /\ ~(CharAt(s, i) \in Lower /\ CharAt(s, i + 1) \in Upper)
    /\ Chars(s) \cap Upper # {}
    /\ Chars(s) \cap Lower # {}

\* A single capital letter, then lowercase words only.
IsCapThenLower(s) ==
    /\ CharAt(s, 1) \in Upper
    /\ \A i \in 2..Len(s) : CharAt(s, i) \in Lower \cup {"_"}

\* One word of capitals and digits that starts with a capital.
IsOneWordCaps(s) ==
    /\ Len(s) > 0
    /\ CharAt(s, 1) \in Upper
    /\ Chars(s) \subseteq Upper \cup Digit

(***************************************************************************)
(* Properties of the classifier (checked under ClassifySpec).              *)
(***************************************************************************)

\* C1: every label of the catalog, classified as an identifier, is given
\* its own label: no earlier entry of the catalog captures it.
C1_CatalogSelfConsistent ==
    (Classified /\ name \in Labels) => plain = Return(name)

C1_Witness == Classified /\ name = "Py_CASES" /\ plain = Return("Py_CASES")

\* C4: an identifier whose stripped form no pattern fully matches makes
\* real_case raise with a message that carries the identifier, and the last
\* entry '_' is returned exactly for the identifiers made of underscores only.
C4_NoMatchRaises ==
    Classified =>
        /\ (Matching(name) = {}) => (plain.raised /\ Contains(plain.value, name))
        /\ plain.raised => Matching(name) = {}
        /\ (plain = Return("_")) <=> (Chars(name) \subseteq {"_"})

C4_Witness ==
    /\ Classified
    /\ name = "_Py_"
    /\ plain = Raise("ValueError", "Word _Py_ have no case")

\* C5: prepending underscores to an identifier does not change the outcome
\* of real_case: the same label, or a failure in both cases.
C5_LeadingUnderscoreInvariance ==
    cpc = "both" =>
        /\ prefixed.raised = plain.raised
        /\ ~plain.raised => prefixed.value = plain.value

C5_Witness ==
    /\ cpc = "both"
    /\ nprefix = 2
    /\ name = "A"
    /\ prefixed = Return("MixedCase")

\* C6 as claimed: every identifier of lowercase-only and uppercase-only words,
\* with both kinds present, is classified changing_CASE.
C6_ChangingCaseAlways ==
    (Classified /\ IsChangingShape(name)) => plain = Return("changing_CASE")

\* C6 amended: such an identifier is classified changing_CASE, unless it is a
\* single capital letter followed by lowercase words only, which the earlier
\* Mixed_snake_case entry captures.
C6_ChangingCaseUnlessCapThenLower ==
    (Classified /\ IsChangingShape(name)) =>
        plain = Return(IF IsCapThenLower(name) THEN "Mixed_snake_case" ELSE "changing_CASE")

C6_Witness ==
    /\ Classified
    /\ name = "barry_as_FLUFL"
    /\ plain = Return("changing_CASE")

\* C10: UPPER_CASE is returned only for identifiers whose stripped form has
\* an underscore, and a one-word all-capitals identifier is labelled MixedCase.
C10_UpperCaseNeedsUnderscore ==
    Classified =>
        /\ (plain = Return("UPPER_CASE")) => "_" \in Chars(LStrip(name))
        /\ IsOneWordCaps(name) => plain = Return("MixedCase")

C10_Witness ==
    /\ Classified
    /\ name = "PA1"
    /\ plain = Return("MixedCase")

(***************************************************************************)
(* Properties of the scan (checked under Spec).                            *)
(***************************************************************************)
\* real_case on the names of the items, as a table.
RealCases ==
    [n \in {item[1] : item \in UNION {ModuleItems(l) : l \in Installed}} |-> real_case(n).value]

\* The key path and the member an observation (lib, obj, obj_name) goes to.
Key(o) == <<o[1], expected_case(o[2]).value, RealCases[o[3]]>>
Pair(o) == <<TypeOf(o[2]), o[3]>>

\* How many times the pair was recorded at the path.
Times(p, pair) == Cardinality({i \in DOMAIN log : Key(log[i]) = p /\ Pair(log[i]) = pair})

\* C2: after any number of record steps acc and counter have the same key
\* paths, and at each path the set is no larger than the count, and as large
\* when no (type, name) pair was recorded twice at the path.
C2_TablesConsistent ==
    /\ KeyPaths(acc) = KeyPaths(counter)
    /\ \A p \in KeyPaths(acc) :
          /\ Cardinality(At(acc, p)) <= At(counter, p)
          /\ (\A pair \in At(acc, p) : Times(p, pair) <= 1)
                => Cardinality(At(acc, p)) = At(counter, p)

C2_Witness ==
    \E p \in KeyPaths(acc) :
        /\ Cardinality(At(acc, p)) = 1
        /\ At(counter, p) = 2
        /\ \E pair \in At(acc, p) : Times(p, pair) = 2

\* The types whose instances can be called.
CallableTypes == {"type", "function", "builtin_function_or_method"}

IsCallable(obj) == \E cls \in CallableTypes : IsInstance(obj, cls)

ClaimedExpected(obj) ==
    IF isclass(obj) THEN "MixedCase"
    ELSE IF IsCallable(obj) \/ ismodule(obj) THEN "snake_case"
    ELSE "UPPER_CASE"

\* C3: every recorded object sits under the expected style of the first role
\* that holds of it: MixedCase for a class, snake_case for any other callable
\* and for a module, UPPER_CASE for the rest.
C3_ExpectedByRole ==
    \A i \in DOMAIN log :
        LET p == <<log[i][1], ClaimedExpected(log[i][2]), RealCases[log[i][3]]>>
        IN  p \in KeyPaths(acc) /\ Pair(log[i]) \in At(acc, p)

LoadFailed(i) == ImportOutcome(libs_names(lines)[i]).raised

Reported(i) ==
    \E k \in DOMAIN stdout :
        /\ stdout[k].call = "print"
        /\ Len(stdout[k].args) = 2
        /\ stdout[k].args = <<"LIB IMPORT ERROR:", ImportOutcome(libs_names(lines)[i]).value>>

\* The run ended before the loop of line 96 had taken every library.
ScanAborted == status = "crashed" /\ exc.kind # "KeyError"

\* C7: a library that fails to load is reported and yields nothing, and the
\* run does not abort: it goes on to the libraries after it.
C7_DriverResilience ==
    \A i \in 1..li :
        LoadFailed(i) =>
            /\ Reported(i)
            /\ (i = li => yielded = <<>>)
            /\ ~ScanAborted

RECURSIVE ReplayFrom(_, _, _, _)
ReplayFrom(obs, k, a, c) ==
    IF k > Len(obs) THEN <<a, c>>
    ELSE ReplayFrom(obs, k + 1,
                    Line98(a, obs[k][1], obs[k][2], obs[k][3]).table,
                    Line99(c, obs[k][1], obs[k][2], obs[k][3]).table)

\* The tables after recording the observations in the order given.
Replay(obs) == ReplayFrom(obs, 1, EmptyDict, EmptyDict)

Swap(s, i, j) ==
    [k \in DOMAIN s |-> IF k = i THEN s[j] ELSE IF k = j THEN s[i] ELSE s[k]]

\* C8: the final tables do not depend on the order of the observations:
\* they hold, per key path, the set and the number of the observations of
\* that path, and recording the same observations with any two of them
\* exchanged gives the same two tables.
C8_OrderIndependent ==
    status = "simplified" =>
        /\ KeyPaths(counter) = {Key(log[i]) : i \in DOMAIN log}
        /\ \A p \in KeyPaths(counter) :
              /\ At(counter, p) = Cardinality({i \in DOMAIN log : Key(log[i]) = p})
              /\ At(acc, p) = {Pair(log[i]) : i \in {j \in DOMAIN log : Key(log[j]) = p}}
        /\ \A i, j \in DOMAIN log : i < j => Replay(Swap(log, i, j)) = <<acc, counter>>

C8_Witness ==
    /\ status = "simplified"
    /\ \E i, j \in DOMAIN log :
          /\ i < j
          /\ Key(log[i]) = Key(log[j])
          /\ Pair(log[i]) # Pair(log[j])
    /\ \E i, j \in DOMAIN log : i < j /\ log[i][1] # log[j][1]

\* The library at position li was imported.
Loaded == li > 0 /\ status # "idle" /\ ~LoadFailed(li)

\* The items of the current module the generator has gone past.
Visited ==
    SubSeq(sys_modules[CurLib], 1, Len(sys_modules[CurLib]) - Len(pending))

VisitedNames == {Visited[i][1] : i \in DOMAIN Visited}
YieldedNames == {yielded[i][2] : i \in DOMAIN yielded}

\* Every yielded pair is (obj, obj_name) of one item, one pair per name.
YieldsItems ==
    /\ \A i \in DOMAIN yielded :
          \E k \in DOMAIN Visited : Visited[k] = <<yielded[i][2], yielded[i][1]>>
    /\ Len(yielded) = Cardinality(YieldedNames)

\* C9 as claimed: the names objects_in_lib leaves out are exactly the dunder
\* names of the module.
C9_ExcludesExactlyDunder ==
    Loaded =>
        /\ YieldsItems
        /\ VisitedNames \ YieldedNames = {n \in VisitedNames : IsDunder(n)}

\* C9 amended: the names objects_in_lib leaves out are exactly the names that
\* start with two underscores, dunder or not.
C9_ExcludesDoubleUnderscorePrefix ==
    Loaded =>
        /\ YieldsItems
        /\ VisitedNames \ YieldedNames = {n \in VisitedNames : StartsWith(n, "__")}

C9_Witness ==
    /\ Loaded
    /\ cur = <<>>
    /\ pending = <<>>
    /\ "__hadoken" \in VisitedNames \ YieldedNames
    /\ "__doc__" \in VisitedNames \ YieldedNames
    /\ "_checkLevel" \in YieldedNames

====
